---- MODULE Spec2Model ----
(***************************************************************************)
(* A model of the contact manager: the value types Name / Phone /          *)
(* Birthday, Record, AddressBook (with the upcoming-birthdays query), the  *)
(* command handlers and the read-command-dispatch loop of main().          *)
(*                                                                         *)
(* Strings the program inspects (command arguments) are sequences of       *)
(* one-character strings; strings the program only prints are TLA+         *)
(* strings.  A Python Optional is a sequence of length 0 (None) or 1.      *)
(***************************************************************************)
EXTENDS Integers, Sequences, FiniteSets, TLC

VARIABLES
    pc,                      \* position of main(): "start", "loop", "done"
    address_book,            \* AddressBook.data: records in insertion order
    file,                    \* addressbook.pkl: None or the pickled book
    today,                   \* datetime.now().date()
    output,                  \* the string the last call returned / printed
    upcoming_birthdays_list, \* the list get_upcoming_birthdays built last
    last,                    \* the last call: its name, arguments, result
    loads,                   \* number of load_data() calls of the session
    saves                    \* number of save_data() calls of the session

vars == <<pc, address_book, file, today, output, upcoming_birthdays_list,
          last, loads, saves>>

----------------------------------------------------------------------------
(* Bounds of the model *)

\* most phone entries the whole address book holds in the explored runs
MaxPhones == 2

\* number of consecutive values of today explored after each base date
TodaySpan == 9

----------------------------------------------------------------------------
(* Python values *)

None == <<>>
Some(x) == <<x>>

RECURSIVE Str(_)
\* the text of a sequence of characters
Str(chars) ==
    IF chars = <<>> THEN "" ELSE Head(chars) \o Str(Tail(chars))

RECURSIVE Join(_, _)
\* sep.join(strings)
Join(strings, sep) ==
    IF strings = <<>> THEN ""
    ELSE IF Len(strings) = 1 THEN strings[1]
    ELSE strings[1] \o sep \o Join(Tail(strings), sep)

Digits == {"0", "1", "2", "3", "4", "5", "6", "7", "8", "9"}

IsDigits(chars) == \A i \in 1..Len(chars) : chars[i] \in Digits

DigitVal(c) == CHOOSE i \in 0..9 : ToString(i) = c

RECURSIVE ToInt(_)
\* int(chars) for a sequence of decimal digits
ToInt(chars) ==
    IF chars = <<>> THEN 0
    ELSE 10 * ToInt(SubSeq(chars, 1, Len(chars) - 1)) + DigitVal(chars[Len(chars)])

\* "%02d" % n
Pad2(n) == IF n < 10 THEN "0" \o ToString(n) ELSE ToString(n)

\* "%04d" % n
Pad4(n) ==
    IF n < 10 THEN "000" \o ToString(n)
    ELSE IF n < 100 THEN "00" \o ToString(n)
    ELSE IF n < 1000 THEN "0" \o ToString(n)
    ELSE ToString(n)

----------------------------------------------------------------------------
(* datetime.date *)

IsLeap(y) == (y % 4 = 0) /\ ((y % 100 # 0) \/ (y % 400 = 0))

DaysInMonth(y, m) ==
    IF m = 2 THEN (IF IsLeap(y) THEN 29 ELSE 28)
    ELSE IF m \in {4, 6, 9, 11} THEN 30 ELSE 31

MkDate(y, m, d) == [year |-> y, month |-> m, day |-> d]

\* date(y, m, d): None stands for the ValueError the constructor raises
Date(y, m, d) ==
    IF /\ y \in 1..9999
       /\ m \in 1..12
       /\ d >= 1
       /\ d <= DaysInMonth(y, m)
    THEN Some(MkDate(y, m, d))
    ELSE None

\* a < b on dates
DateLT(a, b) ==
    \/ a.year < b.year
    \/ a.year = b.year /\ a.month < b.month
    \/ a.year = b.year /\ a.month = b.month /\ a.day < b.day

\* a <= b on dates
DateLE(a, b) == a = b \/ DateLT(a, b)

NextDay(a) ==
    IF a.day < DaysInMonth(a.year, a.month) THEN MkDate(a.year, a.month, a.day + 1)
    ELSE IF a.month < 12 THEN MkDate(a.year, a.month + 1, 1)
    ELSE MkDate(a.year + 1, 1, 1)

RECURSIVE AddDays(_, _)
\* a + timedelta(days=n), n >= 0
AddDays(a, n) == IF n = 0 THEN a ELSE AddDays(NextDay(a), n - 1)

RECURSIVE DaysBeforeMonth(_, _)
DaysBeforeMonth(y, m) ==
    IF m = 1 THEN 0 ELSE DaysBeforeMonth(y, m - 1) + DaysInMonth(y, m - 1)

\* a.toordinal(): 1 for 0001-01-01
ToOrdinal(a) ==
    LET y == a.year - 1
    IN  y * 365 + (y \div 4) - (y \div 100) + (y \div 400)
          + DaysBeforeMonth(a.year, a.month) + a.day

\* a.weekday(): Monday is 0, Sunday is 6
Weekday(a) == (ToOrdinal(a) + 6) % 7

\* a.strftime("%d.%m.%Y")
StrfTime(a) == Pad2(a.day) \o "." \o Pad2(a.month) \o "." \o Pad4(a.year)

----------------------------------------------------------------------------
(* Value types: Name, Phone, Birthday *)

\* Name(raw).value: the raw string, stored verbatim
Name(raw) == raw

\* Phone(raw): exactly 10 characters, all decimal digits; None stands for
\* the validation error the constructor raises
Phone(raw) ==
    IF Len(raw) = 10 /\ IsDigits(raw) THEN Some(raw) ELSE None

RECURSIVE Split(_, _)
\* chars.split(sep)
Split(chars, sep) ==
    IF \A i \in 1..Len(chars) : chars[i] # sep THEN <<chars>>
    ELSE LET i == CHOOSE k \in 1..Len(chars) :
                      /\ chars[k] = sep
                      /\ \A j \in 1..(k - 1) : chars[j] # sep
         IN  <<SubSeq(chars, 1, i - 1)>> \o Split(SubSeq(chars, i + 1, Len(chars)), sep)

\* Birthday(raw): raw parsed as dd.mm.yyyy into a date; None stands for the
\* validation error raised on a malformed string or an impossible date
Birthday(raw) ==
    LET f == Split(raw, ".")
    IN  IF /\ Len(f) = 3
           /\ Len(f[1]) \in 1..2 /\ IsDigits(f[1])
           /\ Len(f[2]) \in 1..2 /\ IsDigits(f[2])
           /\ Len(f[3]) = 4 /\ IsDigits(f[3])
        THEN Date(ToInt(f[3]), ToInt(f[2]), ToInt(f[1]))
        ELSE None

----------------------------------------------------------------------------
(* Record.  A method returns [raised, rec]: the exception it raised (None *)
(* when it returned) and the record as the call left it.                  *)

Returned(rec) == [raised |-> None, rec |-> rec]
Raised(msg, rec) == [raised |-> Some(msg), rec |-> rec]

\* Record(name)
NewRecord(name) == [name |-> Name(name), phones |-> <<>>, birthday |-> None]

\* add_phone that appends before it validates
Mutant_Record_add_phone(rec, phone_number) ==
    LET phone == Phone(phone_number)
        appended == [rec EXCEPT !.phones = Append(@, phone_number)]
    IN  IF phone = None THEN Raised("Invalid phone number", appended)
        ELSE Returned(appended)

\* Record.add_phone
Record_add_phone(rec, phone_number) ==
    LET phone == Phone(phone_number)
    IN  IF phone = None THEN Raised("Invalid phone number", rec)
        ELSE Returned([rec EXCEPT !.phones = Append(@, phone[1])])

\* remove_phone that removes the first matching entry only (list.remove)
Mutant_Record_remove_phone(rec, phone_number) ==
    LET hit == {i \in 1..Len(rec.phones) : rec.phones[i] = phone_number}
        first == CHOOSE i \in hit : \A j \in hit : i <= j
    IN  IF hit = {} THEN Returned(rec)
        ELSE Returned([rec EXCEPT !.phones =
                          SubSeq(@, 1, first - 1) \o SubSeq(@, first + 1, Len(@))])

\* Record.remove_phone
Record_remove_phone(rec, phone_number) ==
    Returned([rec EXCEPT !.phones = SelectSeq(@, LAMBDA p : p # phone_number)])

\* Record.edit_phone: add the new number, then remove the old one
Record_edit_phone(rec, old_phone_number, new_phone_number) ==
    LET added == Record_add_phone(rec, new_phone_number)
    IN  IF added.raised # None THEN added
        ELSE Record_remove_phone(added.rec, old_phone_number)

\* Record.find_phone: the first matching phone or None
Record_find_phone(rec, phone_number) ==
    IF \E i \in 1..Len(rec.phones) : rec.phones[i] = phone_number
    THEN Some(rec.phones[CHOOSE i \in 1..Len(rec.phones) :
                            /\ rec.phones[i] = phone_number
                            /\ \A j \in 1..(i - 1) : rec.phones[j] # phone_number])
    ELSE None

\* add_birthday that overwrites a birthday already set
Mutant_Record_add_birthday(rec, birthday) ==
    LET b == Birthday(birthday)
    IN  IF b = None THEN Raised("Invalid date format", rec)
        ELSE Returned([rec EXCEPT !.birthday = b])

\* Record.add_birthday
Record_add_birthday(rec, birthday) ==
    IF rec.birthday = None
    THEN LET b == Birthday(birthday)
         IN  IF b = None THEN Raised("Invalid date format", rec)
             ELSE Returned([rec EXCEPT !.birthday = b])
    ELSE Raised("Birthday is already set", rec)

\* Record.show_birthday
Record_show_birthday(rec) ==
    IF rec.birthday = None THEN "No birthday set"
    ELSE Str(rec.name) \o "'s birthday is on " \o StrfTime(rec.birthday[1])

\* Record.__str__
Record_str(rec) ==
    LET joined == Join([i \in 1..Len(rec.phones) |-> Str(rec.phones[i])], "; ")
        phones_str == IF joined = "" THEN "----------" ELSE joined
        birthday_str == IF rec.birthday # None THEN StrfTime(rec.birthday[1])
                        ELSE "----------"
    IN  "Contact name: " \o Str(rec.name) \o ", birthday: " \o birthday_str
          \o ", phones: " \o phones_str

----------------------------------------------------------------------------
(* AddressBook: data is the dict, kept as the sequence of its values in   *)
(* insertion order; the key of a value is the name it was stored under,   *)
(* which add_record takes from the record.                                *)

Keys(data) == {data[i].name : i \in 1..Len(data)}

IndexOf(data, name) == CHOOSE i \in 1..Len(data) : data[i].name = name

\* the dict after a method changed the record stored under name in place
Stored(data, name, rec) == [data EXCEPT ![IndexOf(data, name)] = rec]

RECURSIVE TotalPhones(_)
\* the number of phone entries of all records of a dict
TotalPhones(data) ==
    IF data = <<>> THEN 0 ELSE Len(Head(data).phones) + TotalPhones(Tail(data))

\* add_record that stores every record as a new entry
Mutant_AddressBook_add_record_append(data, record) == Append(data, record)

\* add_record that keeps the record already stored under the name
Mutant_AddressBook_add_record(data, record) ==
    IF record.name \in Keys(data) THEN data ELSE Append(data, record)

\* AddressBook.add_record: self.data[record.name.value] = record
AddressBook_add_record(data, record) ==
    IF record.name \in Keys(data)
    THEN [data EXCEPT ![IndexOf(data, record.name)] = record]
    ELSE Append(data, record)

\* AddressBook.find: self.data.get(name, None)
AddressBook_find(data, name) ==
    IF name \in Keys(data) THEN Some(data[IndexOf(data, name)]) ELSE None

\* AddressBook.delete
AddressBook_delete(data, name) ==
    IF name \in Keys(data) THEN SelectSeq(data, LAMBDA r : r.name # name)
    ELSE data

\* the number of days get_upcoming_birthdays looks ahead
days == 7

\* date.weekday() of a Saturday and of a Sunday
Saturday == 5
Sunday == 6

\* the window test with its far end excluded
Mutant_is_date_within_days(today_date, target_date, ndays) ==
    LET date_this_year == Date(today_date.year, target_date.month, target_date.day)
        date_next_year == Date(today_date.year + 1, target_date.month, target_date.day)
        within(t) == DateLE(today_date, t) /\ DateLT(t, AddDays(today_date, ndays))
    IN  IF date_this_year = None THEN [raised |-> TRUE, ret |-> FALSE]
        ELSE IF DateLT(date_this_year[1], today_date)
        THEN IF date_next_year = None THEN [raised |-> TRUE, ret |-> FALSE]
             ELSE [raised |-> FALSE, ret |-> within(date_next_year[1])]
        ELSE [raised |-> FALSE, ret |-> within(date_this_year[1])]

\* AddressBook._is_date_within_days: [raised, ret], raised when a date
\* constructor raises ValueError
AddressBook_is_date_within_days(today_date, target_date, ndays) ==
    LET date_this_year == Date(today_date.year, target_date.month, target_date.day)
        date_next_year == Date(today_date.year + 1, target_date.month, target_date.day)
        within(t) == DateLE(today_date, t) /\ DateLE(t, AddDays(today_date, ndays))
    IN  IF date_this_year = None THEN [raised |-> TRUE, ret |-> FALSE]
        ELSE IF DateLT(date_this_year[1], today_date)
        THEN IF date_next_year = None THEN [raised |-> TRUE, ret |-> FALSE]
             ELSE [raised |-> FALSE, ret |-> within(date_next_year[1])]
        ELSE [raised |-> FALSE, ret |-> within(date_this_year[1])]

\* the weekend shift with a Saturday moved one day only
Mutant_adjust_to_weekday(date_obj) ==
    IF Weekday(date_obj) = Saturday THEN AddDays(date_obj, 1)
    ELSE IF Weekday(date_obj) = Sunday THEN AddDays(date_obj, 1)
    ELSE date_obj

\* AddressBook._adjust_to_weekday
AddressBook_adjust_to_weekday(date_obj) ==
    IF Weekday(date_obj) = Saturday THEN AddDays(date_obj, 2)
    ELSE IF Weekday(date_obj) = Sunday THEN AddDays(date_obj, 1)
    ELSE date_obj

\* the body of the loop of get_upcoming_birthdays for one record: the
\* entries it appends (none when the record is skipped or ValueError is
\* swallowed), each the name and the congratulation date that is formatted
UpcomingEntries(record, today_date) ==
    IF record.birthday = None THEN <<>>
    ELSE LET user_birthday == record.birthday[1]
             w == AddressBook_is_date_within_days(today_date, user_birthday, days)
             birthday_this_year == Date(today_date.year, user_birthday.month, user_birthday.day)
             birthday_next_year == Date(today_date.year + 1, user_birthday.month, user_birthday.day)
         IN  IF w.raised THEN <<>>
             ELSE IF ~w.ret THEN <<>>
             ELSE IF birthday_this_year = None THEN <<>>
             ELSE IF DateLT(birthday_this_year[1], today_date)
             THEN IF birthday_next_year = None THEN <<>>
                  ELSE <<[name |-> record.name,
                          congratulation_date |->
                              AddressBook_adjust_to_weekday(birthday_next_year[1])]>>
             ELSE <<[name |-> record.name,
                     congratulation_date |->
                         AddressBook_adjust_to_weekday(birthday_this_year[1])]>>

RECURSIVE Mutant_UpcomingBirthdaysList(_, _)
\* the loop with ValueError caught around the whole loop instead of inside
\* it: the first record whose date cannot be constructed ends the listing
Mutant_UpcomingBirthdaysList(data, today_date) ==
    IF data = <<>> THEN <<>>
    ELSE IF /\ Head(data).birthday # None
            /\ AddressBook_is_date_within_days(today_date, Head(data).birthday[1], days).raised
         THEN <<>>
         ELSE UpcomingEntries(Head(data), today_date)
                \o Mutant_UpcomingBirthdaysList(Tail(data), today_date)

RECURSIVE UpcomingBirthdaysList(_, _)
\* the list get_upcoming_birthdays builds over self.data.values()
UpcomingBirthdaysList(data, today_date) ==
    IF data = <<>> THEN <<>>
    ELSE UpcomingEntries(Head(data), today_date)
           \o UpcomingBirthdaysList(Tail(data), today_date)

\* the line get_upcoming_birthdays formats for one entry
BirthdayLine(e) ==
    "Contact name: " \o Str(e.name) \o ", birthday: " \o StrfTime(e.congratulation_date)

\* AddressBook.get_upcoming_birthdays
AddressBook_get_upcoming_birthdays(data, today_date) ==
    LET l == UpcomingBirthdaysList(data, today_date)
    IN  Join([i \in 1..Len(l) |-> BirthdayLine(l[i])], "\n")

\* AddressBook.__str__
AddressBook_str(data) ==
    Join([i \in 1..Len(data) |-> Record_str(data[i])], "\n")

----------------------------------------------------------------------------
(* The command handlers.  A handler body returns [raised, ret, data]: the *)
(* exception that left it (None when it returned), the string returned,   *)
(* and the dict as the call left it.                                      *)

HReturn(ret, data) == [raised |-> None, ret |-> ret, data |-> data]
HRaise(msg, data) == [raised |-> Some(msg), ret |-> "", data |-> data]

\* the input_error decorator: an exception raised by the handler becomes
\* the message returned
input_error(result) ==
    IF result.raised = None THEN result
    ELSE HReturn(result.raised[1], result.data)

\* handlers.show_help
show_help ==
    Join(<<"Available commands:",
           "- 'hello':             Greet the user.",
           "- 'help':              Display this help message.",
           "- 'add':               Add a new contact with phone or a phone to existing contact.",
           "                       Usage: add <name> <phone>",
           "- 'add-birthday':      Add a new contact with birthday or a birthday to a contact.",
           "                       Usage: add-birthday <name> <birthday>",
           "- 'change':            Update an existing phone number in existing contact.",
           "                       Usage: change <name> <old_phone> <new_phone>",
           "- 'phone':             Display a contact's phone number/numbers. Usage: phone <name>",
           "- 'show-birthday':     Display a contact's birthday. Usage: show-birthday <name>",
           "- 'birthdays':         Display upcoming birthdays within 7 days.",
           "- 'all':               Display all contacts.",
           "- 'close' or 'exit':   Exit the program.">>, "\n") \o "\n"

\* handlers.add_contact
add_contact(args, data) ==
    IF Len(args) < 2 THEN HReturn("Insufficient arguments. Usage: add <name> <phone>", data)
    ELSE IF Len(args) > 2 THEN HRaise("too many values to unpack (expected 2)", data)
    ELSE LET name_str == args[1]
             phone_str == args[2]
             record == AddressBook_find(data, name_str)
         IN  IF record # None
             THEN IF Record_find_phone(record[1], phone_str) # None
                  THEN HReturn("Contact " \o Str(name_str)
                                 \o " already has this phone number.", data)
                  ELSE LET r == Record_add_phone(record[1], phone_str)
                       IN  IF r.raised # None
                           THEN HRaise(r.raised[1], Stored(data, name_str, r.rec))
                           ELSE HReturn("Phone number added to existing contact "
                                          \o Str(name_str) \o ".",
                                        Stored(data, name_str, r.rec))
             ELSE LET r == Record_add_phone(NewRecord(name_str), phone_str)
                  IN  IF r.raised # None THEN HRaise(r.raised[1], data)
                      ELSE HReturn("Contact added.", AddressBook_add_record(data, r.rec))

\* change_contact without the check that the old number is present
Mutant_change_contact(args, data) ==
    IF Len(args) < 3
    THEN HReturn("Insufficient arguments. Usage: change <name> <old_phone> <new_phone>", data)
    ELSE IF Len(args) > 3 THEN HRaise("too many values to unpack (expected 3)", data)
    ELSE LET name_str == args[1]
             record == AddressBook_find(data, name_str)
         IN  IF record = None
             THEN HReturn("No contact found with name " \o Str(name_str) \o ".", data)
             ELSE LET r == Record_edit_phone(record[1], args[2], args[3])
                  IN  IF r.raised # None
                      THEN HRaise(r.raised[1], Stored(data, name_str, r.rec))
                      ELSE HReturn("Contact updated.", Stored(data, name_str, r.rec))

\* handlers.change_contact
change_contact(args, data) ==
    IF Len(args) < 3
    THEN HReturn("Insufficient arguments. Usage: change <name> <old_phone> <new_phone>", data)
    ELSE IF Len(args) > 3 THEN HRaise("too many values to unpack (expected 3)", data)
    ELSE LET name_str == args[1]
             old_phone_str == args[2]
             new_phone_str == args[3]
             record == AddressBook_find(data, name_str)
         IN  IF record = None
             THEN HReturn("No contact found with name " \o Str(name_str) \o ".", data)
             ELSE IF Record_find_phone(record[1], old_phone_str) = None
             THEN HReturn("No phone number " \o Str(old_phone_str)
                            \o " found for contact " \o Str(name_str) \o ".", data)
             ELSE LET r == Record_edit_phone(record[1], old_phone_str, new_phone_str)
                  IN  IF r.raised # None
                      THEN HRaise(r.raised[1], Stored(data, name_str, r.rec))
                      ELSE HReturn("Contact updated.", Stored(data, name_str, r.rec))

\* handlers.show_phone
show_phone(args, data) ==
    IF Len(args) # 1 THEN HReturn("Insufficient arguments. Usage: phone <name>", data)
    ELSE LET record == AddressBook_find(data, args[1])
         IN  IF record = None
             THEN HReturn("No contact found with name " \o Str(args[1]) \o ".", data)
             ELSE HReturn(Record_str(record[1]), data)

\* handlers.show_all
show_all(data) ==
    IF data = <<>> THEN HReturn("No contacts.", data)
    ELSE HReturn(AddressBook_str(data), data)

\* add_birthday that never looks the contact up: it always stores a new
\* Record(name) with the birthday
Mutant_add_birthday(args, data) ==
    IF Len(args) < 2
    THEN HReturn("Insufficient arguments. Usage: add-birthday <name> <birthday>", data)
    ELSE IF Len(args) > 2 THEN HRaise("too many values to unpack (expected 2)", data)
    ELSE LET r == Record_add_birthday(NewRecord(args[1]), args[2])
         IN  IF r.raised # None THEN HRaise(r.raised[1], data)
             ELSE HReturn("Contact with birthday added.",
                          AddressBook_add_record(data, r.rec))

\* handlers.add_birthday
add_birthday(args, data) ==
    IF Len(args) < 2
    THEN HReturn("Insufficient arguments. Usage: add-birthday <name> <birthday>", data)
    ELSE IF Len(args) > 2 THEN HRaise("too many values to unpack (expected 2)", data)
    ELSE LET name_str == args[1]
             birthday_str == args[2]
             record == AddressBook_find(data, name_str)
         IN  IF record # None
             THEN LET r == Record_add_birthday(record[1], birthday_str)
                  IN  IF r.raised # None
                      THEN HRaise(r.raised[1], Stored(data, name_str, r.rec))
                      ELSE HReturn("Birthday added to existing contact "
                                     \o Str(name_str) \o ".",
                                   Stored(data, name_str, r.rec))
             ELSE LET r == Record_add_birthday(NewRecord(name_str), birthday_str)
                  IN  IF r.raised # None THEN HRaise(r.raised[1], data)
                      ELSE HReturn("Contact with birthday added.",
                                   AddressBook_add_record(data, r.rec))

\* handlers.show_birthday
show_birthday(args, data) ==
    IF Len(args) # 1 THEN HReturn("Insufficient arguments. Usage: show-birthday <name>", data)
    ELSE LET record == AddressBook_find(data, args[1])
         IN  IF record = None
             THEN HReturn("No contact found with name " \o Str(args[1]) \o ".", data)
             ELSE HReturn(Record_show_birthday(record[1]), data)

\* birthdays that reports "No contacts." whenever nothing is upcoming
Mutant_birthdays(data, today_date) ==
    IF AddressBook_get_upcoming_birthdays(data, today_date) = ""
    THEN HReturn("No contacts.", data)
    ELSE HReturn(AddressBook_get_upcoming_birthdays(data, today_date), data)

\* handlers.birthdays
birthdays(data, today_date) ==
    IF data = <<>> THEN HReturn("No contacts.", data)
    ELSE HReturn(AddressBook_get_upcoming_birthdays(data, today_date), data)

----------------------------------------------------------------------------
(* Persistence *)

\* data_manager.load_data: the pickled book, or a new AddressBook when
\* there is no file
load_data(f) == IF f = None THEN <<>> ELSE f[1]

\* data_manager.save_data: the file after pickle.dump(book, f)
save_data(book) == Some(book)

----------------------------------------------------------------------------
(* Inputs *)

John == <<"J", "o", "h", "n">>
Ann == <<"A", "n", "n">>
Names == {John, Ann}

\* "08.06.1990", "12.06.1985", "15.06.1992", "03.01.2001", "29.02.2000"
Bday0806 == <<"0", "8", ".", "0", "6", ".", "1", "9", "9", "0">>
Bday1206 == <<"1", "2", ".", "0", "6", ".", "1", "9", "8", "5">>
Bday1506 == <<"1", "5", ".", "0", "6", ".", "1", "9", "9", "2">>
Bday0301 == <<"0", "3", ".", "0", "1", ".", "2", "0", "0", "1">>
Bday2902 == <<"2", "9", ".", "0", "2", ".", "2", "0", "0", "0">>
\* "31.02.2024" (no such date) and "1990-06-08" (not dd.mm.yyyy)
BdayNoSuchDate == <<"3", "1", ".", "0", "2", ".", "2", "0", "2", "4">>
BdayMalformed == <<"1", "9", "9", "0", "-", "0", "6", "-", "0", "8">>

QueryBirthdays == {Bday0806, Bday1206, Bday1506, Bday0301, Bday2902}

\* the first values of today: around 15.06 on a Sunday (2025) and on a
\* Saturday (2024), across two year ends, and around the end of February
\* of a leap year and of a common year
TodayBases ==
    {MkDate(2025, 6, 5), MkDate(2024, 6, 6), MkDate(2024, 12, 24),
     MkDate(2025, 12, 26), MkDate(2024, 2, 21), MkDate(2025, 2, 21)}

Todays == {AddDays(b, k) : b \in TodayBases, k \in 0..TodaySpan}

\* a record as Record(name) followed by add_birthday(raw) leaves it
RecordWithBirthday(name, raw) == Record_add_birthday(NewRecord(name), raw).rec

QueryRecords ==
    {NewRecord(n) : n \in Names}
      \cup {RecordWithBirthday(n, b) : n \in Names, b \in QueryBirthdays}

\* the books of at most two records, one per name, in either order
QueryBooks ==
    {<<>>} \cup {<<r>> : r \in QueryRecords}
      \cup {b \in {<<r1, r2>> : r1 \in QueryRecords, r2 \in QueryRecords} :
                b[1].name # b[2].name}

----------------------------------------------------------------------------
(* The upcoming-birthdays query as a function of the book and of today *)

InitBirthdays ==
    /\ pc = "library"
    /\ address_book \in QueryBooks
    /\ file = None
    /\ today \in Todays
    /\ output = ""
    /\ upcoming_birthdays_list = <<>>
    /\ last = [op |-> "init"]
    /\ loads = 0
    /\ saves = 0

\* a call of address_book.get_upcoming_birthdays()
GetUpcomingBirthdays ==
    /\ pc = "library"
    /\ upcoming_birthdays_list' = UpcomingBirthdaysList(address_book, today)
    /\ output' = AddressBook_get_upcoming_birthdays(address_book, today)
    /\ last' = [op |-> "get_upcoming_birthdays"]
    /\ UNCHANGED <<pc, address_book, file, today, loads, saves>>

\* a call of handlers.birthdays(address_book)
BirthdaysHandler ==
    /\ pc = "library"
    /\ upcoming_birthdays_list' =
           IF address_book = <<>> THEN <<>>
           ELSE UpcomingBirthdaysList(address_book, today)
    /\ output' = input_error(birthdays(address_book, today)).ret
    /\ last' = [op |-> "birthdays"]
    /\ UNCHANGED <<pc, address_book, file, today, loads, saves>>

NextBirthdays == GetUpcomingBirthdays \/ BirthdaysHandler

SpecBirthdays == InitBirthdays /\ [][NextBirthdays]_vars

----------------------------------------------------------------------------
(* Claims about the upcoming-birthdays query *)

\* the next occurrence of birthday b seen from day t, by day numbers: this
\* year's month/day unless it lies strictly before t, then next year's;
\* None when that date does not exist
NextOccurrence(b, t) ==
    LET this == Date(t.year, b.month, b.day)
    IN  IF this = None THEN None
        ELSE IF ToOrdinal(this[1]) < ToOrdinal(t) THEN Date(t.year + 1, b.month, b.day)
        ELSE this

\* the number of days from t to date d
DaysUntil(d, t) == ToOrdinal(d) - ToOrdinal(t)

Listed(name) ==
    \E j \in 1..Len(upcoming_birthdays_list) : upcoming_birthdays_list[j].name = name

\* C1: after get_upcoming_birthdays, a record with a birthday is listed if
\* and only if its next occurrence exists and lies 0 to 7 days after today,
\* both ends included; the test is on the occurrence before the weekend
\* shift.
C1_ListedIffOccurrenceInWindow ==
    (last.op = "get_upcoming_birthdays") =>
        \A i \in 1..Len(address_book) :
            LET r == address_book[i]
                occ == NextOccurrence(r.birthday[1], today)
            IN  r.birthday # None =>
                    (Listed(r.name) <=>
                        (occ # None /\ DaysUntil(occ[1], today) \in 0..7))

\* a listed record whose occurrence is exactly 7 days away on a weekend, so
\* that the date rendered lies beyond the window
C1_Witness ==
    /\ last.op = "get_upcoming_birthdays"
    /\ \E i \in 1..Len(address_book), j \in 1..Len(upcoming_birthdays_list) :
          LET r == address_book[i]
              e == upcoming_birthdays_list[j]
          IN  /\ r.birthday # None
              /\ e.name = r.name
              /\ NextOccurrence(r.birthday[1], today) # None
              /\ DaysUntil(NextOccurrence(r.birthday[1], today)[1], today) = 7
              /\ DaysUntil(e.congratulation_date, today) > 7

\* the shift of the claim: 2 days from a Saturday, 1 day from a Sunday
WeekendShift(d) ==
    IF ToOrdinal(d) % 7 = 6 THEN 2 ELSE IF ToOrdinal(d) % 7 = 0 THEN 1 ELSE 0

\* C2: the date rendered for a listed record is its occurrence moved forward
\* 2 days from a Saturday, 1 day from a Sunday and not at all otherwise; it
\* is never a Saturday or a Sunday and never earlier than the occurrence.
C2_RenderedDateIsShiftedOccurrence ==
    (last.op = "get_upcoming_birthdays") =>
        /\ \A j \in 1..Len(upcoming_birthdays_list) :
              LET e == upcoming_birthdays_list[j]
                  r == AddressBook_find(address_book, e.name)[1]
                  occ == NextOccurrence(r.birthday[1], today)[1]
              IN  /\ DaysUntil(e.congratulation_date, occ) = WeekendShift(occ)
                  /\ Weekday(e.congratulation_date) \notin {5, 6}
                  /\ DaysUntil(e.congratulation_date, occ) >= 0
        /\ output = Join([j \in 1..Len(upcoming_birthdays_list) |->
                            "Contact name: " \o Str(upcoming_birthdays_list[j].name)
                              \o ", birthday: "
                              \o StrfTime(upcoming_birthdays_list[j].congratulation_date)],
                         "\n")

\* both shifts happen in one answer: one record moved from a Saturday and
\* one from a Sunday (Scenario C: 15.06.2025, a Sunday, rendered 16.06.2025)
C2_Witness ==
    /\ last.op = "get_upcoming_birthdays"
    /\ today = MkDate(2025, 6, 10)
    /\ \E j \in 1..Len(upcoming_birthdays_list) :
          /\ upcoming_birthdays_list[j].congratulation_date = MkDate(2025, 6, 16)
          /\ output = "Contact name: " \o Str(upcoming_birthdays_list[j].name)
                        \o ", birthday: 16.06.2025"

----------------------------------------------------------------------------
(* The classes used directly: any caller of AddressBook and Record *)

\* "1111111111", "9876543210", "5550001234" and the 9-digit "123456789",
\* and "12345abcde" (ten characters, not all digits)
Phone1 == <<"1", "1", "1", "1", "1", "1", "1", "1", "1", "1">>
Phone2 == <<"9", "8", "7", "6", "5", "4", "3", "2", "1", "0">>
Phone3 == <<"5", "5", "5", "0", "0", "0", "1", "2", "3", "4">>
PhoneShort == <<"1", "2", "3", "4", "5", "6", "7", "8", "9">>
PhoneLetters == <<"1", "2", "3", "4", "5", "a", "b", "c", "d", "e">>

ApiPhones == {Phone1, Phone2, PhoneShort}
ApiBirthdays == {Bday1506, BdayNoSuchDate, BdayMalformed}

\* the records a caller builds before add_record: Record(name), with or
\* without one phone added
ApiRecords ==
    {NewRecord(n) : n \in Names}
      \cup {Record_add_phone(NewRecord(n), Phone1).rec : n \in Names}

InitApi ==
    /\ pc = "library"
    /\ address_book = <<>>
    /\ file = None
    /\ today = MkDate(2025, 6, 10)
    /\ output = ""
    /\ upcoming_birthdays_list = <<>>
    /\ last = [op |-> "init"]
    /\ loads = 0
    /\ saves = 0

ApiFrame == UNCHANGED <<pc, file, today, output, upcoming_birthdays_list, loads, saves>>

\* address_book.add_record(record)
ApiAddRecord(record) ==
    /\ pc = "library"
    /\ TotalPhones(AddressBook_add_record(address_book, record)) <= MaxPhones
    /\ address_book' = AddressBook_add_record(address_book, record)
    /\ last' = [op |-> "add_record", record |-> record]
    /\ ApiFrame

\* address_book.find(name)
ApiFind(name) ==
    /\ pc = "library"
    /\ last' = [op |-> "find", name |-> name, ret |-> AddressBook_find(address_book, name)]
    /\ UNCHANGED address_book
    /\ ApiFrame

\* address_book.delete(name)
ApiDelete(name) ==
    /\ pc = "library"
    /\ address_book' = AddressBook_delete(address_book, name)
    /\ last' = [op |-> "delete", name |-> name]
    /\ ApiFrame

\* a method of the record stored under name, which leaves result
ApiRecordCall(op, name, args, result) ==
    /\ pc = "library"
    /\ name \in Keys(address_book)
    /\ TotalPhones(Stored(address_book, name, result.rec)) <= MaxPhones
    /\ address_book' = Stored(address_book, name, result.rec)
    /\ last' = [op |-> op, name |-> name, args |-> args, raised |-> result.raised]
    /\ ApiFrame

TheRecord(name) == AddressBook_find(address_book, name)[1]

\* address_book.find(name).add_phone(phone_number)
ApiAddPhone(name, phone_number) ==
    /\ name \in Keys(address_book)
    /\ ApiRecordCall("add_phone", name, <<phone_number>>,
                     Record_add_phone(TheRecord(name), phone_number))

\* address_book.find(name).remove_phone(phone_number)
ApiRemovePhone(name, phone_number) ==
    /\ name \in Keys(address_book)
    /\ ApiRecordCall("remove_phone", name, <<phone_number>>,
                     Record_remove_phone(TheRecord(name), phone_number))

\* address_book.find(name).edit_phone(old, new)
ApiEditPhone(name, old_phone_number, new_phone_number) ==
    /\ name \in Keys(address_book)
    /\ ApiRecordCall("edit_phone", name, <<old_phone_number, new_phone_number>>,
                     Record_edit_phone(TheRecord(name), old_phone_number, new_phone_number))

\* address_book.find(name).find_phone(phone_number)
ApiFindPhone(name, phone_number) ==
    /\ pc = "library"
    /\ name \in Keys(address_book)
    /\ last' = [op |-> "find_phone", name |-> name, args |-> <<phone_number>>,
                ret |-> Record_find_phone(TheRecord(name), phone_number)]
    /\ UNCHANGED address_book
    /\ ApiFrame

\* address_book.find(name).add_birthday(birthday)
ApiAddBirthday(name, birthday) ==
    /\ name \in Keys(address_book)
    /\ ApiRecordCall("add_birthday", name, <<birthday>>,
                     Record_add_birthday(TheRecord(name), birthday))

NextApi ==
    \/ \E record \in ApiRecords : ApiAddRecord(record)
    \/ \E name \in Names : ApiFind(name)
    \/ \E name \in Names : ApiDelete(name)
    \/ \E name \in Names, p \in ApiPhones \cup {PhoneLetters} : ApiAddPhone(name, p)
    \/ \E name \in Names, p \in ApiPhones : ApiRemovePhone(name, p)
    \/ \E name \in Names, old \in ApiPhones, new \in ApiPhones \cup {Phone3} :
          ApiEditPhone(name, old, new)
    \/ \E name \in Names, p \in ApiPhones : ApiFindPhone(name, p)
    \/ \E name \in Names, b \in ApiBirthdays : ApiAddBirthday(name, b)

SpecApi == InitApi /\ [][NextApi]_vars

----------------------------------------------------------------------------
(* Claims about Record and AddressBook *)

\* the number of entries of list equal to x
Count(list, x) == Cardinality({i \in 1..Len(list) : list[i] = x})

InList(list, x) == \E i \in 1..Len(list) : list[i] = x

\* the phone list of the record under name in a dict
PhonesOf(data, name) == AddressBook_find(data, name)[1].phones

\* an edit_phone(old, new) call that returned, on a record whose list held
\* old and did not hold new, with old # new
EditStep ==
    /\ last'.op = "edit_phone"
    /\ last'.raised = None
    /\ last'.args[1] # last'.args[2]
    /\ InList(PhonesOf(address_book, last'.name), last'.args[1])
    /\ ~InList(PhonesOf(address_book, last'.name), last'.args[2])

\* C3 as stated: such a call leaves a list that contains new, does not
\* contain old, and has the length it had before.
C3_EditKeepsLength ==
    [][EditStep =>
          /\ InList(PhonesOf(address_book', last'.name), last'.args[2])
          /\ ~InList(PhonesOf(address_book', last'.name), last'.args[1])
          /\ Len(PhonesOf(address_book', last'.name))
               = Len(PhonesOf(address_book, last'.name))]_vars

\* C3 amended: such a call leaves a list that contains new and does not
\* contain old; its length is the former length plus one, less the number
\* of entries that equalled old, so it is unchanged exactly when old
\* occurred once.
C3_EditLengthByOccurrences ==
    [][EditStep =>
          LET before == PhonesOf(address_book, last'.name)
              after == PhonesOf(address_book', last'.name)
              old == last'.args[1]
              new == last'.args[2]
          IN  /\ InList(after, new)
              /\ ~InList(after, old)
              /\ Len(after) = Len(before) + 1 - Count(before, old)
              /\ (Len(after) = Len(before)) <=> (Count(before, old) = 1)]_vars

\* an edit_phone call replaced the single entry old of a two-entry list
C3_Witness ==
    /\ last.op = "edit_phone"
    /\ last.raised = None
    /\ last.args[1] # last.args[2]
    /\ Len(PhonesOf(address_book, last.name)) = 2
    /\ Count(PhonesOf(address_book, last.name), last.args[2]) = 1
    /\ ~InList(PhonesOf(address_book, last.name), last.args[1])

\* C5: find(r.name) right after add_record(r) returns r; find(n) right
\* after delete(n) returns None; delete(n) on a book without n changes
\* nothing.
C5_FindAfterAddAndDelete ==
    [][/\ (last'.op = "add_record") =>
             AddressBook_find(address_book', last'.record.name) = Some(last'.record)
       /\ (last'.op = "delete") =>
             /\ AddressBook_find(address_book', last'.name) = None
             /\ (last'.name \notin Keys(address_book)) => (address_book' = address_book)]_vars

\* add_record stored a record with a phone over a name already present,
\* next to another record
C5_Witness ==
    /\ last.op = "add_record"
    /\ Len(address_book) = 2
    /\ address_book[1] = last.record
    /\ last.record.phones # <<>>

----------------------------------------------------------------------------
(* main(): load, then read a command and dispatch it, until close / exit *)

SessionPhones == {Phone1, Phone2, PhoneShort}
SessionBirthdays == {Bday1506, Bday0806, BdayNoSuchDate}

AddArgs ==
    {<<n, p>> : n \in Names, p \in SessionPhones}
      \cup {<<John>>, <<John, Phone1, Phone2>>}

ChangeArgs ==
    {<<n, old, new>> : n \in Names, old \in {Phone1, Phone2}, new \in SessionPhones}
      \cup {<<John, Phone1>>, <<John, Phone1, Phone2, Phone1>>}

NameArgs == {<<n>> : n \in Names} \cup {<<>>}

AddBirthdayArgs ==
    {<<n, b>> : n \in Names, b \in SessionBirthdays}
      \cup {<<John>>, <<John, Bday1506, Bday0806>>}

\* a book an earlier session saved: add John 1111111111, add-birthday John
\* 15.06.1992, exit
SavedBook ==
    add_birthday(<<John, Bday1506>>, add_contact(<<John, Phone1>>, <<>>).data).data

Init ==
    /\ pc = "start"
    /\ address_book = <<>>
    /\ file \in {None, Some(SavedBook)}
    /\ today = MkDate(2025, 6, 10)
    /\ output = ""
    /\ upcoming_birthdays_list = <<>>
    /\ last = [op |-> "init"]
    /\ loads = 0
    /\ saves = 0

\* address_book = load_data() and the two welcome lines
Load ==
    /\ pc = "start"
    /\ address_book' = load_data(file)
    /\ loads' = loads + 1
    /\ output' = "Type 'help' to see a list of available commands."
    /\ last' = [op |-> "load_data", args |-> <<>>]
    /\ pc' = "loop"
    /\ UNCHANGED <<file, today, upcoming_birthdays_list, saves>>

\* one pass of the loop that prints what a handler returned
Dispatch(command, args, result) ==
    /\ pc = "loop"
    /\ TotalPhones(result.data) <= MaxPhones
    /\ address_book' = result.data
    /\ output' = result.ret
    /\ last' = [op |-> command, args |-> args]
    /\ UNCHANGED <<pc, file, today, loads, saves>>

\* an empty line: continue
EmptyInput ==
    /\ pc = "loop"
    /\ UNCHANGED vars

\* close / exit without the break: the loop goes on after the save
Mutant_Exit(command) ==
    /\ pc = "loop"
    /\ file' = save_data(address_book)
    /\ saves' = saves + 1
    /\ output' = "Good bye!"
    /\ last' = [op |-> command, args |-> <<>>]
    /\ UNCHANGED <<pc, address_book, today, upcoming_birthdays_list, loads>>

\* close / exit: save_data(address_book), "Good bye!", break
Exit(command) ==
    /\ pc = "loop"
    /\ file' = save_data(address_book)
    /\ saves' = saves + 1
    /\ output' = "Good bye!"
    /\ last' = [op |-> command, args |-> <<>>]
    /\ pc' = "done"
    /\ UNCHANGED <<address_book, today, upcoming_birthdays_list, loads>>

CmdHelp ==
    /\ Dispatch("help", <<>>, HReturn(show_help, address_book))
    /\ UNCHANGED upcoming_birthdays_list

CmdHello ==
    /\ Dispatch("hello", <<>>, HReturn("How can I help you?", address_book))
    /\ UNCHANGED upcoming_birthdays_list

CmdAdd(args) ==
    /\ Dispatch("add", args, input_error(add_contact(args, address_book)))
    /\ UNCHANGED upcoming_birthdays_list

CmdChange(args) ==
    /\ Dispatch("change", args, input_error(change_contact(args, address_book)))
    /\ UNCHANGED upcoming_birthdays_list

CmdPhone(args) ==
    /\ Dispatch("phone", args, input_error(show_phone(args, address_book)))
    /\ UNCHANGED upcoming_birthdays_list

CmdAll ==
    /\ Dispatch("all", <<>>, input_error(show_all(address_book)))
    /\ UNCHANGED upcoming_birthdays_list

CmdAddBirthday(args) ==
    /\ Dispatch("add-birthday", args, input_error(add_birthday(args, address_book)))
    /\ UNCHANGED upcoming_birthdays_list

CmdShowBirthday(args) ==
    /\ Dispatch("show-birthday", args, input_error(show_birthday(args, address_book)))
    /\ UNCHANGED upcoming_birthdays_list

CmdBirthdays ==
    /\ Dispatch("birthdays", <<>>, input_error(birthdays(address_book, today)))
    /\ upcoming_birthdays_list' =
           IF address_book = <<>> THEN <<>>
           ELSE UpcomingBirthdaysList(address_book, today)

CmdInvalid ==
    /\ Dispatch("invalid", <<>>, HReturn("Invalid command.", address_book))
    /\ UNCHANGED upcoming_birthdays_list

Next ==
    \/ Load
    \/ EmptyInput
    \/ \E command \in {"close", "exit"} : Exit(command)
    \/ CmdHelp
    \/ CmdHello
    \/ \E args \in AddArgs : CmdAdd(args)
    \/ \E args \in ChangeArgs : CmdChange(args)
    \/ \E args \in NameArgs : CmdPhone(args)
    \/ CmdAll
    \/ \E args \in AddBirthdayArgs : CmdAddBirthday(args)
    \/ \E args \in NameArgs : CmdShowBirthday(args)
    \/ CmdBirthdays
    \/ CmdInvalid

Spec == Init /\ [][Next]_vars

----------------------------------------------------------------------------
(* Claims about the handlers and the session *)

HasBirthday(data, name) ==
    /\ name \in Keys(data)
    /\ AddressBook_find(data, name)[1].birthday # None

\* C4: once a record's birthday is set, no later step changes it, and an
\* add-birthday command for that contact returns the message "Birthday is
\* already set" and leaves the address book as it was.
C4_BirthdaySetOnce ==
    [][\A n \in Names :
          HasBirthday(address_book, n) =>
              /\ HasBirthday(address_book', n)
              /\ AddressBook_find(address_book', n)[1].birthday
                   = AddressBook_find(address_book, n)[1].birthday
              /\ (/\ last'.op = "add-birthday"
                  /\ Len(last'.args) = 2
                  /\ last'.args[1] = n) =>
                      /\ output' = "Birthday is already set"
                      /\ address_book' = address_book]_vars

\* a second add-birthday, with another valid date, was refused and the
\* first date is still stored
C4_Witness ==
    /\ last.op = "add-birthday"
    /\ last.args = <<John, Bday0806>>
    /\ output = "Birthday is already set"
    /\ AddressBook_find(address_book, John)[1].birthday = Birthday(Bday1506)

ChangeStep(n, old, new) ==
    /\ last'.op = "change"
    /\ last'.args = <<n, old, new>>
    /\ old # new
    /\ Phone(new) # None
    /\ n \in Keys(address_book)

\* the same change command directly after one that updated the contact and
\* left it the list [new]
RepeatedChangeStep(n, old, new) ==
    /\ ChangeStep(n, old, new)
    /\ last.op = "change"
    /\ last.args = <<n, old, new>>
    /\ output = "Contact updated."
    /\ PhonesOf(address_book, n) = <<new>>

\* C7 as stated: change on a contact holding exactly old makes the list
\* [new], and the same change repeated yields [new, new].
C7_RepeatedChangeAppends ==
    [][\A n \in Names, old \in {Phone1, Phone2}, new \in SessionPhones :
          /\ (ChangeStep(n, old, new) /\ PhonesOf(address_book, n) = <<old>>) =>
                 PhonesOf(address_book', n) = <<new>>
          /\ RepeatedChangeStep(n, old, new) =>
                 PhonesOf(address_book', n) = <<new, new>>]_vars

\* C7 amended: change on a contact holding exactly old makes the list
\* [new] and returns "Contact updated."; the same change repeated, with old
\* now absent, is refused with "No phone number <old> found for contact
\* <name>." and leaves the list [new].
C7_RepeatedChangeRefused ==
    [][\A n \in Names, old \in {Phone1, Phone2}, new \in SessionPhones :
          /\ (ChangeStep(n, old, new) /\ PhonesOf(address_book, n) = <<old>>) =>
                 /\ PhonesOf(address_book', n) = <<new>>
                 /\ output' = "Contact updated."
          /\ RepeatedChangeStep(n, old, new) =>
                 /\ PhonesOf(address_book', n) = <<new>>
                 /\ address_book' = address_book
                 /\ output' = "No phone number " \o Str(old)
                                \o " found for contact " \o Str(n) \o "."]_vars

\* Scenario E with ten-digit numbers: change John 9876543210 1111111111 was
\* refused and John holds [1111111111]
C7_Witness ==
    /\ last.op = "change"
    /\ last.args = <<John, Phone2, Phone1>>
    /\ output = "No phone number 9876543210 found for contact John."
    /\ PhonesOf(address_book, John) = <<Phone1>>

NoDuplicatePhone(data) ==
    \A i \in 1..Len(data) :
        \A j, k \in 1..Len(data[i].phones) :
            j # k => data[i].phones[j] # data[i].phones[k]

\* C8: in a session that started from an empty address book, no record's
\* phone list holds the same number twice.
C8_NoDuplicatePhone ==
    (file = None /\ pc = "loop") => NoDuplicatePhone(address_book)

SessionState ==
    /\ (pc = "start") => (loads = 0 /\ saves = 0 /\ last.op = "init")
    /\ (pc = "loop") => (loads = 1 /\ saves = 0)
    /\ (pc = "done") =>
           /\ loads = 1
           /\ saves = 1
           /\ last.op \in {"close", "exit"}
           /\ file = Some(address_book)

SessionStep ==
    /\ (last'.op \in {"close", "exit"}) <=> (saves' = saves + 1)
    /\ (last'.op \notin {"close", "exit"}) => (file' = file /\ saves' = saves)
    /\ (saves' = saves + 1) => (pc = "loop" /\ pc' = "done" /\ file' = Some(address_book))
    /\ (loads' # loads) => (pc = "start" /\ last'.op = "load_data")

\* C9: the book is loaded once, before the first command; the file is
\* written only by close / exit, once, and the session is over right after
\* the write; no other command changes the file.
C9_LoadOnceSaveOnceAtExit == []SessionState /\ [][SessionStep]_vars

\* a session ended by exit, with one save of a book the commands built
C9_Witness ==
    /\ pc = "done"
    /\ saves = 1
    /\ loads = 1
    /\ last.op = "exit"
    /\ file # None
    /\ Len(file[1]) = 2

\* no record of the book has an occurrence 0 to 7 days after today
NothingUpcoming ==
    \A i \in 1..Len(address_book) :
        LET r == address_book[i]
        IN  r.birthday # None =>
                LET occ == NextOccurrence(r.birthday[1], today)
                IN  occ = None \/ DaysUntil(occ[1], today) \notin 0..7

\* C10: the birthdays command returns "No contacts." exactly when the book
\* holds no record; on a book with records of which none is upcoming it
\* returns the empty string.
C10_NoContactsOnlyWhenEmpty ==
    (last.op = "birthdays") =>
        /\ (output = "No contacts.") <=> (address_book = <<>>)
        /\ (address_book # <<>> /\ NothingUpcoming) => output = ""

\* birthdays on a book of two records with birthdays, none upcoming,
\* returned the empty string
C10_Witness ==
    /\ last.op = "birthdays"
    /\ Len(address_book) = 2
    /\ \A i \in 1..2 : address_book[i].birthday # None
    /\ NothingUpcoming
    /\ output = ""

\* C11: for every record containing a number p, after edit_phone(p, p), and
\* after the command change(name, p, p), the record's phone list still
\* contains p.
C11_SameNumberEditKeepsNumber ==
    [][/\ (/\ last'.op = "edit_phone"
           /\ last'.args[1] = last'.args[2]
           /\ InList(PhonesOf(address_book, last'.name), last'.args[1])) =>
              InList(PhonesOf(address_book', last'.name), last'.args[1])
       /\ (/\ last'.op = "change"
           /\ Len(last'.args) = 3
           /\ last'.args[2] = last'.args[3]
           /\ last'.args[1] \in Keys(address_book)
           /\ InList(PhonesOf(address_book, last'.args[1]), last'.args[2])) =>
              InList(PhonesOf(address_book', last'.args[1]), last'.args[2])]_vars

\* a record with a birthday whose occurrence the query has to construct
\* (this year's, or next year's when this year's lies before today) is no
\* calendar date
Unconstructible(r) ==
    r.birthday # None /\ NextOccurrence(r.birthday[1], today) = None

Constructible(r) == ~Unconstructible(r)

\* C12: get_upcoming_birthdays always returns; a record whose occurrence
\* cannot be constructed (29 February in a year that is not a leap year) is
\* omitted, and the result is the one the book without such records gives:
\* every other record with an occurrence 0 to 7 days ahead is listed, once,
\* in the book's insertion order.
C12_UnconstructibleRecordOmitted ==
    (last.op = "get_upcoming_birthdays") =>
        LET kept == SelectSeq(address_book, Constructible)
            l == upcoming_birthdays_list
        IN  /\ \A i \in 1..Len(address_book) :
                  Unconstructible(address_book[i]) => ~Listed(address_book[i].name)
            /\ \A i \in 1..Len(kept) :
                  (/\ kept[i].birthday # None
                   /\ DaysUntil(NextOccurrence(kept[i].birthday[1], today)[1], today) \in 0..7)
                      => Listed(kept[i].name)
            /\ l = UpcomingBirthdaysList(kept, today)
            /\ output = AddressBook_get_upcoming_birthdays(kept, today)
            /\ \A j, k \in 1..Len(l) :
                  j < k => IndexOf(address_book, l[j].name) < IndexOf(address_book, l[k].name)

\* the first record of the book has a 29 February birthday that cannot be
\* constructed, and the record after it is listed
C12_Witness ==
    /\ last.op = "get_upcoming_birthdays"
    /\ Len(address_book) = 2
    /\ Unconstructible(address_book[1])
    /\ address_book[1].birthday[1].month = 2
    /\ address_book[1].birthday[1].day = 29
    /\ Len(upcoming_birthdays_list) = 1
    /\ upcoming_birthdays_list[1].name = address_book[2].name
    /\ output # ""

\* every stored record is the one found under its own name, and no two
\* entries have the same name
OneRecordPerName ==
    /\ \A i \in 1..Len(address_book) :
          AddressBook_find(address_book, address_book[i].name) = Some(address_book[i])
    /\ \A i, j \in 1..Len(address_book) :
          i # j => address_book[i].name # address_book[j].name
    /\ Cardinality(Keys(address_book)) = Len(address_book)

\* add_record of a name already present puts the record in that name's
\* entry and keeps every other entry, and the order; of a new name it adds
\* one entry after the others
AddRecordStep ==
    (last'.op = "add_record") =>
        LET record == last'.record
        IN  IF record.name \in Keys(address_book)
            THEN /\ Len(address_book') = Len(address_book)
                 /\ \A i \in 1..Len(address_book) :
                       address_book'[i] =
                           IF address_book[i].name = record.name THEN record
                           ELSE address_book[i]
            ELSE address_book' = Append(address_book, record)

\* C13: in every reachable state each name of the book maps to one record,
\* the one with that name, so there is at most one record per name;
\* add_record of a record whose name is already present replaces the record
\* stored under that name and leaves every other entry unchanged.
C13_OneRecordPerName == []OneRecordPerName /\ [][AddRecordStep]_vars

\* add_record has just replaced the first of two entries by a record
\* without phones, and the second entry still has its phone
C13_Witness ==
    /\ last.op = "add_record"
    /\ Len(address_book) = 2
    /\ address_book[1] = last.record
    /\ address_book[1].phones = <<>>
    /\ address_book[2].phones = <<Phone1>>

\* the record a step leaves is the record old, changed at most by the
\* Record method the command calls on the contact it names: add appends a
\* phone, change edits the phones, add-birthday sets a birthday that was
\* not set
SameRecord(old, new) ==
    /\ new.name = old.name
    /\ \/ new = old
       \/ /\ last'.op = "add"
          /\ last'.args = <<old.name, new.phones[Len(new.phones)]>>
          /\ new.phones = Append(old.phones, last'.args[2])
          /\ new.birthday = old.birthday
       \/ /\ last'.op = "change"
          /\ Len(last'.args) = 3
          /\ last'.args[1] = old.name
          /\ new.birthday = old.birthday
       \/ /\ last'.op = "add-birthday"
          /\ Len(last'.args) = 2
          /\ last'.args[1] = old.name
          /\ old.birthday = None
          /\ new.phones = old.phones

\* a step keeps every entry of the book in its place, with its record, and
\* adds at most one entry, after the others, for a name add or add-birthday
\* did not find
ContactsKeptStep ==
    /\ Len(address_book') >= Len(address_book)
    /\ \A i \in 1..Len(address_book) : SameRecord(address_book[i], address_book'[i])
    /\ (pc = "loop" /\ Len(address_book') # Len(address_book)) =>
           /\ Len(address_book') = Len(address_book) + 1
           /\ last'.op \in {"add", "add-birthday"}
           /\ Len(last'.args) = 2
           /\ last'.args[1] \notin Keys(address_book)
           /\ address_book'[Len(address_book')].name = last'.args[1]

\* C14: over any sequence of commands no contact is removed or replaced:
\* a name in the address book stays there for the rest of the session, in
\* the same entry and with the same record (changed only by the methods
\* called on it), and an entry is added only for a name that was not found.
C14_ContactsNeverRemovedOrReplaced == [][ContactsKeptStep]_vars

\* add-birthday on a contact that already had a phone kept the phone, and
\* the book has two contacts
C14_Witness ==
    /\ last.op = "add-birthday"
    /\ last.args = <<Ann, Bday1506>>
    /\ output = "Birthday added to existing contact Ann."
    /\ Len(address_book) = 2
    /\ PhonesOf(address_book, Ann) = <<Phone2>>
    /\ HasBirthday(address_book, Ann)

====
